---- MODULE Spec2Model ----
(***************************************************************************)
(* Model of src/src/commit.rs: AutoCommitRegistry, a clonable handle on a  *)
(* mutex-guarded registry (offset map, last_commit_time, callback) that    *)
(* commits the accumulated offsets on a consumer when commit_interval has  *)
(* elapsed, on an explicit commit() and whenever a handle is dropped.      *)
(*                                                                         *)
(* Every thread owns one handle: thread 1 the constructor's, the others a  *)
(* clone.  Time is a discrete clock that Instant::now() reads, and         *)
(* commit_interval is a positive number of its units.  A step of a thread  *)
(* is the code between two lock operations or calls out of the registry;   *)
(* a step that needs the mutex waits until it is free.  commit_mode is     *)
(* only handed on to the consumer and is left out.                         *)
(*                                                                         *)
(* ev holds what the last step did at the registry's interfaces: the       *)
(* consumer's commit call, the callback's invocation, a HashMap::insert    *)
(* that replaced a larger offset, a maybe_commit that returned without a   *)
(* flush, the value commit() returned.                                     *)
(***************************************************************************)
EXTENDS Integers, FiniteSets, Sequences, TLC

\* ---------------------------------------------------------------- bounds
NThreads == 2
MaxTime == 2
MaxOffset == 1
MaxInterval == 2

Threads == 1..NThreads
NoThread == 0
Intervals == 1..MaxInterval

\* the (topic, partition) keys of the test, those the registrations draw from,
\* and the offsets
Keys == {<<"a", 0>>, <<"a", 1>>, <<"b", 0>>}
RegKeys == {<<"a", 0>>, <<"b", 0>>}
Offsets == 0..MaxOffset

\* callback: None, an observer, or the closure of the test, which stores the
\* map it is given
None == "None"
Observers == {"f"}
TestClosure == "committed_clone"

\* KafkaResult<()> of a consumer commit call
Results == {"Ok", "Err"}

VARIABLES
    offsets,            \* inner.offsets: set of <<(topic, partition), offset>> entries
    last_commit_time,   \* inner.last_commit_time
    callback,           \* inner.callback
    lock,               \* holder of the Mutex around inner, NoThread when free
    commit_interval,    \* the handles' commit_interval
    clock,              \* the time Instant::now() returns
    pc,                 \* per thread: position in the handle's operations
    now,                \* per thread: `now` of maybe_commit
    result,             \* per thread: `result` of maybe_commit
    sent,               \* per thread: the commit request of its flush
    aborted,            \* the process died of a panic
    ev,                 \* what the last step did at the interfaces
    lastFlush,          \* time of the last scheduled flush (-1: none yet)
    latest,             \* per key: offset of its latest registration (-1: none)
    committed,          \* the test's `committed`: the map its closure stored
    script,             \* position of the callers' scenario
    hist,               \* the last commit request of the steps before the last
    translation         \* a run of offset_map_to_tpl, loop by loop

vars == <<offsets, last_commit_time, callback, lock, commit_interval, clock, pc,
          now, result, sent, aborted, ev, lastFlush, latest, committed, script,
          hist, translation>>

\* all but the run of offset_map_to_tpl
registry == <<offsets, last_commit_time, callback, lock, commit_interval, clock, pc,
              now, result, sent, aborted, ev, lastFlush, latest, committed, script,
              hist>>

inner == <<offsets, last_commit_time, callback>>
locals == <<now, result, sent>>

\* translation where offset_map_to_tpl is not followed loop by loop
NoTranslation == [stage |-> "none", map |-> {}, left |-> {}, groups |-> <<>>,
                  todo |-> {}, tpl |-> <<>>]

\* ev of a step that does none of these
NoCall == [kind |-> "none", req |-> {}, res |-> "none"]
NoNotify == [called |-> FALSE, who |-> "None", map |-> {}, res |-> "none"]
NoEv == [call |-> NoCall, notified |-> NoNotify, lowered |-> FALSE,
         skipped |-> FALSE, returned |-> "none"]

\* ------------------------------------------------------- pure functions

\* the offset of key k in the map, -1 when it has none
get(map, k) == IF \E e \in map : e[1] = k
               THEN (CHOOSE e \in map : e[1] = k)[2]
               ELSE -1

\* a HashMap::insert that never lowers an offset
insert_max(map, k, o) ==
    IF get(map, k) > o THEN map ELSE {e \in map : e[1] # k} \cup {<<k, o>>}

\* HashMap::insert: the entry of key k is replaced
insert(map, k, o) == {e \in map : e[1] # k} \cup {<<k, o>>}

\* TopicPartitionList::add_topic_with_partitions_and_offsets: one element per
\* (partition, offset) pair, under the topic
add_topic_with_partitions_and_offsets(tpl, topic, partitions) ==
    tpl \cup {<<topic, po[1], po[2]>> : po \in partitions}

\* groups in which a topic's entry is overwritten instead of extended
groups_overwrite(map) ==
    [tp \in {e[1][1] : e \in map} |->
        LET e == CHOOSE x \in map : x[1][1] = tp IN {<<e[1][2], e[2]>>}]

\* the groups of offset_map_to_tpl: topic -> its (partition, offset) pairs
groups(map) ==
    [tp \in {e[1][1] : e \in map} |->
        {<<e[1][2], e[2]>> : e \in {x \in map : x[1][1] = tp}}]

\* the second loop of offset_map_to_tpl: every group is added to the list
RECURSIVE add_groups(_, _, _)
add_groups(tpl, g, todo) ==
    IF todo = {} THEN tpl
    ELSE LET tp == CHOOSE x \in todo : TRUE
         IN add_groups(add_topic_with_partitions_and_offsets(tpl, tp, g[tp]),
                       g, todo \ {tp})

offset_map_to_tpl(map) == LET g == groups(map) IN add_groups({}, g, DOMAIN g)

\* Instant::duration_since where it does not panic: zero when earlier is later
duration_since(later, earlier) == IF later >= earlier THEN later - earlier ELSE 0

\* a scheduling test that leaves out the interval's boundary
due_strict(t) == duration_since(now[t], last_commit_time) > commit_interval

\* the scheduling test of maybe_commit
due(t) == duration_since(now[t], last_commit_time) >= commit_interval

\* thread t holds a handle
Live(t) == pc[t] \notin {"unborn", "dropped", "aborted"}

\* ------------------------------------------------------------------ Init

\* AutoCommitRegistry::new by thread 1, at time 0
new ==
    /\ offsets = {}
    /\ last_commit_time = 0
    /\ callback = None
    /\ lock = NoThread
    /\ clock = 0
    /\ pc = [t \in Threads |-> IF t = 1 THEN "idle" ELSE "unborn"]
    /\ now = [t \in Threads |-> 0]
    /\ result = [t \in Threads |-> "none"]
    /\ sent = [t \in Threads |-> {}]
    /\ aborted = FALSE
    /\ ev = NoEv
    /\ lastFlush = -1
    /\ latest = [k \in Keys |-> -1]
    /\ committed = None

Init ==
    /\ new
    /\ commit_interval \in Intervals
    /\ script = 0
    /\ hist = {}
    /\ translation = NoTranslation

\* --------------------------------------------------------------- actions

\* time passes while a handle is in use
Tick ==
    /\ ~aborted
    /\ \E t \in Threads : Live(t)
    /\ clock < MaxTime
    /\ clock' = clock + 1
    /\ ev' = NoEv
    /\ UNCHANGED <<inner, lock, commit_interval, pc, locals, aborted, lastFlush,
                   latest, committed>>

\* a clone that starts with a timer of its own
clone_reset(t, u) ==
    /\ ~aborted
    /\ pc[t] = "idle"
    /\ pc[u] = "unborn"
    /\ \A v \in Threads : v < u => pc[v] # "unborn"
    /\ pc' = [pc EXCEPT ![u] = "idle"]
    /\ last_commit_time' = clock
    /\ ev' = NoEv
    /\ UNCHANGED <<offsets, callback, lock, commit_interval, clock, locals, aborted,
                   lastFlush, latest, committed>>

\* Clone::clone: thread t clones its handle for a new thread u, the next one
\* that is not there yet
clone(t, u) ==
    /\ ~aborted
    /\ pc[t] = "idle"
    /\ pc[u] = "unborn"
    /\ \A v \in Threads : v < u => pc[v] # "unborn"
    /\ pc' = [pc EXCEPT ![u] = "idle"]
    /\ ev' = NoEv
    /\ UNCHANGED <<inner, lock, commit_interval, clock, locals, aborted, lastFlush,
                   latest, committed>>

\* a set_callback that keeps the callback that is there
set_callback_first(t, f) ==
    /\ ~aborted
    /\ pc[t] = "idle"
    /\ lock = NoThread
    /\ callback' = IF callback = None THEN f ELSE callback
    /\ ev' = NoEv
    /\ UNCHANGED <<offsets, last_commit_time, lock, commit_interval, clock, pc,
                   locals, aborted, lastFlush, latest, committed>>

\* set_callback: under the lock, the callback is replaced
set_callback(t, f) ==
    /\ ~aborted
    /\ pc[t] = "idle"
    /\ lock = NoThread
    /\ callback' = f
    /\ ev' = NoEv
    /\ UNCHANGED <<offsets, last_commit_time, lock, commit_interval, clock, pc,
                   locals, aborted, lastFlush, latest, committed>>

\* a register_message that inserts without the lock
register_message_unlocked(t, k, o) ==
    /\ ~aborted
    /\ pc[t] = "idle"
    /\ offsets' = insert(offsets, k, o)
    /\ latest' = [latest EXCEPT ![k] = o]
    /\ ev' = [NoEv EXCEPT !.lowered = get(offsets, k) > o]
    /\ pc' = [pc EXCEPT ![t] = "inserted"]
    /\ UNCHANGED <<last_commit_time, callback, lock, commit_interval, clock, locals,
                   aborted, lastFlush, committed>>

\* register_message, its first block: under the lock, insert the entry
register_message(t, k, o) ==
    /\ ~aborted
    /\ pc[t] = "idle"
    /\ lock = NoThread
    /\ offsets' = insert(offsets, k, o)
    /\ latest' = [latest EXCEPT ![k] = o]
    /\ ev' = [NoEv EXCEPT !.lowered = get(offsets, k) > o]
    /\ pc' = [pc EXCEPT ![t] = "inserted"]
    /\ UNCHANGED <<last_commit_time, callback, lock, commit_interval, clock, locals,
                   aborted, lastFlush, committed>>

\* maybe_commit: let now = Instant::now(), before the lock is taken
maybe_commit_now(t) ==
    /\ ~aborted
    /\ pc[t] = "inserted"
    /\ now' = [now EXCEPT ![t] = clock]
    /\ pc' = [pc EXCEPT ![t] = "sampled"]
    /\ ev' = NoEv
    /\ UNCHANGED <<inner, lock, commit_interval, clock, result, sent, aborted,
                   lastFlush, latest, committed>>

\* a maybe_commit that goes on to flush without last_commit_time = now
maybe_commit_check_keep_time(t) ==
    /\ ~aborted
    /\ pc[t] = "sampled"
    /\ lock = NoThread
    /\ IF due(t)
       THEN /\ lastFlush' = now[t]
            /\ lock' = t
            /\ pc' = [pc EXCEPT ![t] = "flush"]
            /\ now' = now
            /\ ev' = NoEv
       ELSE /\ pc' = [pc EXCEPT ![t] = "idle"]
            /\ now' = [now EXCEPT ![t] = 0]
            /\ ev' = [NoEv EXCEPT !.skipped = TRUE]
            /\ UNCHANGED <<lastFlush, lock>>
    /\ UNCHANGED <<inner, commit_interval, clock, result, sent, aborted, latest,
                   committed>>

\* maybe_commit: lock and compare; when due, last_commit_time = now and the
\* flush follows with the lock held; otherwise return
maybe_commit_check(t) ==
    /\ ~aborted
    /\ pc[t] = "sampled"
    /\ lock = NoThread
    /\ IF due(t)
       THEN /\ last_commit_time' = now[t]
            /\ lastFlush' = now[t]
            /\ lock' = t
            /\ pc' = [pc EXCEPT ![t] = "flush"]
            /\ now' = now
            /\ ev' = NoEv
       ELSE /\ pc' = [pc EXCEPT ![t] = "idle"]
            /\ now' = [now EXCEPT ![t] = 0]
            /\ ev' = [NoEv EXCEPT !.skipped = TRUE]
            /\ UNCHANGED <<last_commit_time, lastFlush, lock>>
    /\ UNCHANGED <<offsets, callback, commit_interval, clock, result, sent, aborted,
                   latest, committed>>

\* maybe_commit: duration_since panics when last_commit_time is later than now
\* (std before 1.60).  The unwinding thread drops its handle, whose commit()
\* finds the mutex poisoned and panics again: the process aborts.
maybe_commit_panic(t) ==
    /\ ~aborted
    /\ pc[t] = "sampled"
    /\ lock = NoThread
    /\ now[t] < last_commit_time
    /\ aborted' = TRUE
    /\ pc' = [u \in Threads |-> "aborted"]
    /\ now' = [u \in Threads |-> 0]
    /\ ev' = NoEv
    /\ UNCHANGED <<inner, lock, commit_interval, clock, result, sent, lastFlush,
                   latest, committed>>

\* a flush that gives up the lock once the commit call has returned
maybe_commit_call_unlock(t, r) ==
    /\ ~aborted
    /\ pc[t] = "flush"
    /\ LET tpl == offset_map_to_tpl(offsets)
       IN /\ ev' = [NoEv EXCEPT !.call = [kind |-> "scheduled", req |-> tpl, res |-> r]]
          /\ sent' = [sent EXCEPT ![t] = tpl]
    /\ result' = [result EXCEPT ![t] = r]
    /\ pc' = [pc EXCEPT ![t] = "notify"]
    /\ lock' = NoThread
    /\ UNCHANGED <<inner, commit_interval, clock, now, aborted, lastFlush, latest,
                   committed>>

\* a flush that takes last_commit_time back when the commit call fails
maybe_commit_call_rollback(t, r) ==
    /\ ~aborted
    /\ pc[t] = "flush"
    /\ LET tpl == offset_map_to_tpl(offsets)
       IN /\ ev' = [NoEv EXCEPT !.call = [kind |-> "scheduled", req |-> tpl, res |-> r]]
          /\ sent' = [sent EXCEPT ![t] = tpl]
    /\ result' = [result EXCEPT ![t] = r]
    /\ pc' = [pc EXCEPT ![t] = "notify"]
    /\ last_commit_time' = IF r = "Err" THEN 0 ELSE last_commit_time
    /\ UNCHANGED <<offsets, callback, lock, commit_interval, clock, now, aborted,
                   lastFlush, latest, committed>>

\* maybe_commit: result = consumer.commit(offset_map_to_tpl(offsets), mode),
\* with the lock held
maybe_commit_call(t, r) ==
    /\ ~aborted
    /\ pc[t] = "flush"
    /\ LET tpl == offset_map_to_tpl(offsets)
       IN /\ ev' = [NoEv EXCEPT !.call = [kind |-> "scheduled", req |-> tpl, res |-> r]]
          /\ sent' = [sent EXCEPT ![t] = tpl]
    /\ result' = [result EXCEPT ![t] = r]
    /\ pc' = [pc EXCEPT ![t] = "notify"]
    /\ UNCHANGED <<inner, lock, commit_interval, clock, now, aborted, lastFlush,
                   latest, committed>>

\* a flush that empties the offset map once it is through
maybe_commit_callback_clear(t) ==
    /\ ~aborted
    /\ pc[t] = "notify"
    /\ ev' = IF callback # None
             THEN [NoEv EXCEPT !.notified =
                       [called |-> TRUE, who |-> callback, map |-> offsets,
                        res |-> result[t]]]
             ELSE NoEv
    /\ committed' = IF callback = TestClosure THEN offsets ELSE committed
    /\ offsets' = {}
    /\ lock' = IF lock = t THEN NoThread ELSE lock
    /\ pc' = [pc EXCEPT ![t] = "idle"]
    /\ now' = [now EXCEPT ![t] = 0]
    /\ result' = [result EXCEPT ![t] = "none"]
    /\ sent' = [sent EXCEPT ![t] = {}]
    /\ UNCHANGED <<last_commit_time, callback, commit_interval, clock, aborted,
                   lastFlush, latest>>

\* maybe_commit: if a callback is set, call it with the offsets and the result;
\* the lock is released on return
maybe_commit_callback(t) ==
    /\ ~aborted
    /\ pc[t] = "notify"
    /\ ev' = IF callback # None
             THEN [NoEv EXCEPT !.notified =
                       [called |-> TRUE, who |-> callback, map |-> offsets,
                        res |-> result[t]]]
             ELSE NoEv
    /\ committed' = IF callback = TestClosure THEN offsets ELSE committed
    /\ lock' = IF lock = t THEN NoThread ELSE lock
    /\ pc' = [pc EXCEPT ![t] = "idle"]
    /\ now' = [now EXCEPT ![t] = 0]
    /\ result' = [result EXCEPT ![t] = "none"]
    /\ sent' = [sent EXCEPT ![t] = {}]
    /\ UNCHANGED <<inner, commit_interval, clock, aborted, lastFlush, latest>>

\* maybe_commit: the callback is called and, being a closure that holds a
\* handle of this registry, calls register_message, commit or set_callback on
\* it: the thread asks for the mutex that its maybe_commit holds
maybe_commit_callback_reenter(t) ==
    /\ ~aborted
    /\ pc[t] = "notify"
    /\ callback \notin {None, TestClosure}
    /\ ev' = [NoEv EXCEPT !.notified =
                 [called |-> TRUE, who |-> callback, map |-> offsets,
                  res |-> result[t]]]
    /\ pc' = [pc EXCEPT ![t] = "reentered"]
    /\ UNCHANGED <<inner, lock, commit_interval, clock, locals, aborted, lastFlush,
                   latest, committed>>

\* Mutex::lock by the thread that holds the mutex blocks for ever, or panics:
\* the unwinding thread poisons the mutex and drops its handle, whose commit()
\* panics again, and the process aborts
reenter_panic(t) ==
    /\ ~aborted
    /\ pc[t] = "reentered"
    /\ aborted' = TRUE
    /\ pc' = [u \in Threads |-> "aborted"]
    /\ now' = [u \in Threads |-> 0]
    /\ lock' = NoThread
    /\ result' = [u \in Threads |-> "none"]
    /\ sent' = [u \in Threads |-> {}]
    /\ ev' = NoEv
    /\ UNCHANGED <<inner, commit_interval, clock, lastFlush, latest, committed>>

\* a commit() that hands its result to the callback as well
commit_body_notify(t, r) ==
    /\ lock = NoThread
    /\ last_commit_time' = clock
    /\ ev' = [NoEv EXCEPT
                !.call = [kind |-> "explicit", req |-> offset_map_to_tpl(offsets),
                          res |-> r],
                !.notified = IF callback # None
                             THEN [called |-> TRUE, who |-> callback, map |-> offsets,
                                   res |-> r]
                             ELSE NoNotify,
                !.returned = r]
    /\ UNCHANGED <<offsets, callback, lock, committed>>

\* a commit() that reports success whatever the consumer answered
commit_body_swallow(t, r) ==
    /\ lock = NoThread
    /\ last_commit_time' = clock
    /\ ev' = [NoEv EXCEPT
                !.call = [kind |-> "explicit", req |-> offset_map_to_tpl(offsets),
                          res |-> r],
                !.returned = "Ok"]
    /\ UNCHANGED <<offsets, callback, lock, committed>>

\* a commit() that leaves last_commit_time alone
commit_body_keep_time(t, r) ==
    /\ lock = NoThread
    /\ ev' = [NoEv EXCEPT
                !.call = [kind |-> "explicit", req |-> offset_map_to_tpl(offsets),
                          res |-> r],
                !.returned = r]
    /\ UNCHANGED <<inner, lock, committed>>

\* commit(): lock, last_commit_time = Instant::now(), consumer.commit, the
\* result goes to the caller
commit_body(t, r) ==
    /\ lock = NoThread
    /\ last_commit_time' = clock
    /\ ev' = [NoEv EXCEPT
                !.call = [kind |-> "explicit", req |-> offset_map_to_tpl(offsets),
                          res |-> r],
                !.returned = r]
    /\ UNCHANGED <<offsets, callback, lock, committed>>

\* an explicit commit() by the owner of a handle
commit(t, r) ==
    /\ ~aborted
    /\ pc[t] = "idle"
    /\ commit_body(t, r)
    /\ UNCHANGED <<commit_interval, clock, pc, locals, aborted, lastFlush, latest>>

\* a handle that goes away without a commit
drop_forget(t, r) ==
    /\ ~aborted
    /\ pc[t] = "idle"
    /\ pc' = [pc EXCEPT ![t] = "dropped"]
    /\ ev' = NoEv
    /\ UNCHANGED <<inner, lock, commit_interval, clock, locals, aborted, lastFlush,
                   latest, committed>>

\* Drop::drop: let _ = self.commit(), then the handle is gone
drop(t, r) ==
    /\ ~aborted
    /\ pc[t] = "idle"
    /\ commit_body(t, r)
    /\ pc' = [pc EXCEPT ![t] = "dropped"]
    /\ UNCHANGED <<commit_interval, clock, locals, aborted, lastFlush, latest>>

Next ==
    \/ Tick /\ UNCHANGED <<script, hist, translation>>
    \/ \E t, u \in Threads : clone(t, u) /\ UNCHANGED <<script, hist, translation>>
    \/ \E t \in Threads, f \in Observers : set_callback(t, f) /\ UNCHANGED <<script, hist, translation>>
    \/ \E t \in Threads, k \in RegKeys, o \in Offsets :
          register_message(t, k, o) /\ UNCHANGED <<script, hist, translation>>
    \/ \E t \in Threads : maybe_commit_now(t) /\ UNCHANGED <<script, hist, translation>>
    \/ \E t \in Threads : maybe_commit_check(t) /\ UNCHANGED <<script, hist, translation>>
    \/ \E t \in Threads : maybe_commit_panic(t) /\ UNCHANGED <<script, hist, translation>>
    \/ \E t \in Threads, r \in Results : maybe_commit_call(t, r) /\ UNCHANGED <<script, hist, translation>>
    \/ \E t \in Threads : maybe_commit_callback(t) /\ UNCHANGED <<script, hist, translation>>
    \/ \E t \in Threads :
          maybe_commit_callback_reenter(t) /\ UNCHANGED <<script, hist, translation>>
    \/ \E t \in Threads : reenter_panic(t) /\ UNCHANGED <<script, hist, translation>>
    \/ \E t \in Threads, r \in Results : commit(t, r) /\ UNCHANGED <<script, hist, translation>>
    \/ \E t \in Threads, r \in Results : drop(t, r) /\ UNCHANGED <<script, hist, translation>>

Spec == Init /\ [][Next]_vars

\* ------------------------------------------ test::test_auto_commit_registry
\* One time unit is 200 ms: the interval of 2 s and the sleep of 800 ms.
TestInterval == 10
TestSleep == 4
TestRounds == 4

\* thread::sleep(d) by thread t: d passes
sleep(t, d) ==
    /\ ~aborted
    /\ pc[t] = "idle"
    /\ clock' = clock + d
    /\ ev' = NoEv
    /\ UNCHANGED <<inner, lock, commit_interval, pc, locals, aborted, lastFlush,
                   latest, committed>>

\* script: 0 constructed, 1 callback set, 2 clone moved into the thread, 2 + s
\* before the s-th statement of the loop (4 statements a round), then thread
\* finished and its clone dropped (join returns, the assertion), then reg dropped
TestLoopEnd == 2 + 4 * TestRounds
TestJoined == TestLoopEnd + 1
TestRound == (script - 2) \div 4
TestStmt == (script - 2) % 4
TestKey == IF TestStmt = 0 THEN <<"a", 0>> ELSE IF TestStmt = 1 THEN <<"a", 1>> ELSE <<"b", 0>>
TestOffset == IF TestStmt = 1 THEN TestRound + 1 ELSE TestRound
TestExpected == {<<<<"a", 0>>, 3>>, <<<<"a", 1>>, 4>>, <<<<"b", 0>>, 3>>}

TestInit ==
    /\ new
    /\ commit_interval = TestInterval
    /\ script = 0
    /\ hist = {}
    /\ translation = NoTranslation

\* the main thread is thread 1, the spawned thread is thread 2; a sleep lasts
\* the 800 ms asked for or 200 ms more
TestNext ==
    \/ script = 0 /\ set_callback(1, TestClosure) /\ script' = 1 /\ UNCHANGED <<hist, translation>>
    \/ script = 1 /\ clone(1, 2) /\ script' = 2 /\ UNCHANGED <<hist, translation>>
    \/ /\ script \in 2..(TestLoopEnd - 1)
       /\ TestStmt < 3
       /\ register_message(2, TestKey, TestOffset)
       /\ script' = script + 1 /\ UNCHANGED <<hist, translation>>
    \/ maybe_commit_now(2) /\ UNCHANGED <<script, hist, translation>>
    \/ maybe_commit_check(2) /\ UNCHANGED <<script, hist, translation>>
    \/ \E r \in Results : maybe_commit_call(2, r) /\ UNCHANGED <<script, hist, translation>>
    \/ maybe_commit_callback(2) /\ UNCHANGED <<script, hist, translation>>
    \/ /\ script \in 2..(TestLoopEnd - 1)
       /\ TestStmt = 3
       /\ \E d \in {TestSleep, TestSleep + 1} : sleep(2, d)
       /\ script' = script + 1 /\ UNCHANGED <<hist, translation>>
    \/ script = TestLoopEnd /\ (\E r \in Results : drop(2, r)) /\ script' = TestJoined /\ UNCHANGED <<hist, translation>>
    \/ script = TestJoined /\ (\E r \in Results : drop(1, r)) /\ script' = TestJoined + 1 /\ UNCHANGED <<hist, translation>>

TestSpec == TestInit /\ [][TestNext]_vars

\* ------------------------------------------ one consumer for each partition
\* The callers register as the registry expects them to: every (topic,
\* partition) key is registered by the one thread that consumes it, with offsets
\* that never decrease.  hist keeps the request of the last commit call before
\* the last step, next to which ev has that of the last step.

\* the thread that consumes partition k
Owner(k) == IF k = <<"a", 0>> THEN 1 ELSE 2

PartitionInit ==
    /\ new
    /\ commit_interval \in Intervals
    /\ script = 0
    /\ hist = {}
    /\ translation = NoTranslation

\* the offsets that the consumer of partition k may register next
Supplied_any(k) == Offsets

Supplied(k) == {o \in Offsets : o >= latest[k]}

\* the request of the commit call of the step before is kept
Consumed ==
    /\ hist' = IF ev.call.kind = "none" THEN hist ELSE ev.call.req
    /\ UNCHANGED <<script, translation>>

PartitionNext ==
    \/ Tick /\ Consumed
    \/ \E t, u \in Threads : clone(t, u) /\ Consumed
    \/ \E t \in Threads, f \in Observers : set_callback(t, f) /\ Consumed
    \/ \E k \in RegKeys : \E o \in Supplied(k) :
          register_message(Owner(k), k, o) /\ Consumed
    \/ \E t \in Threads : maybe_commit_now(t) /\ Consumed
    \/ \E t \in Threads : maybe_commit_check(t) /\ Consumed
    \/ \E t \in Threads : maybe_commit_panic(t) /\ Consumed
    \/ \E t \in Threads, r \in Results : maybe_commit_call(t, r) /\ Consumed
    \/ \E t \in Threads : maybe_commit_callback(t) /\ Consumed
    \/ \E t \in Threads : maybe_commit_callback_reenter(t) /\ Consumed
    \/ \E t \in Threads : reenter_panic(t) /\ Consumed
    \/ \E t \in Threads, r \in Results : commit(t, r) /\ Consumed
    \/ \E t \in Threads, r \in Results : drop(t, r) /\ Consumed

PartitionSpec == PartitionInit /\ [][PartitionNext]_vars

\* ------------------------------------------------- one observer, then another
\* The callers set a first observer and later a second one; script counts the
\* set_callback calls.  They register the messages of one partition.

\* the observer of the n-th set_callback
Replacing == <<"f", "g">>

\* the partition whose messages are registered
Observed == <<"a", 0>>

ObserverInit ==
    /\ new
    /\ commit_interval \in Intervals
    /\ script = 0
    /\ hist = {}
    /\ translation = NoTranslation

ObserverNext ==
    \/ Tick /\ UNCHANGED <<script, hist, translation>>
    \/ \E t, u \in Threads : clone(t, u) /\ UNCHANGED <<script, hist, translation>>
    \/ \E t \in Threads :
          /\ script < Len(Replacing)
          /\ set_callback(t, Replacing[script + 1])
          /\ script' = script + 1
          /\ UNCHANGED <<hist, translation>>
    \/ \E t \in Threads, o \in Offsets :
          register_message(t, Observed, o) /\ UNCHANGED <<script, hist, translation>>
    \/ \E t \in Threads : maybe_commit_now(t) /\ UNCHANGED <<script, hist, translation>>
    \/ \E t \in Threads : maybe_commit_check(t) /\ UNCHANGED <<script, hist, translation>>
    \/ \E t \in Threads : maybe_commit_panic(t) /\ UNCHANGED <<script, hist, translation>>
    \/ \E t \in Threads, r \in Results :
          maybe_commit_call(t, r) /\ UNCHANGED <<script, hist, translation>>
    \/ \E t \in Threads :
          maybe_commit_callback(t) /\ UNCHANGED <<script, hist, translation>>
    \/ \E t \in Threads :
          maybe_commit_callback_reenter(t) /\ UNCHANGED <<script, hist, translation>>
    \/ \E t \in Threads : reenter_panic(t) /\ UNCHANGED <<script, hist, translation>>
    \/ \E t \in Threads, r \in Results :
          commit(t, r) /\ UNCHANGED <<script, hist, translation>>
    \/ \E t \in Threads, r \in Results :
          drop(t, r) /\ UNCHANGED <<script, hist, translation>>

ObserverSpec == ObserverInit /\ [][ObserverNext]_vars

\* ------------------------------------------------------ offset_map_to_tpl
\* The two loops of offset_map_to_tpl, one iteration a step.  A HashMap is
\* iterated in an order of its own: every iteration takes any entry that is
\* left.  A Vec and the TopicPartitionList are sequences.

\* the offset maps over Keys and Offsets: at most one entry for a key
OffsetMaps ==
    {m \in SUBSET (Keys \X Offsets) : \A e1, e2 \in m : e1[1] = e2[1] => e1 = e2}

\* TopicPartitionList::add_topic_with_partitions_and_offsets on the list: an
\* element for every (partition, offset) pair of the Vec, in its order
add_to_list(tpl, topic, partitions) ==
    tpl \o [i \in 1..Len(partitions) |-> <<topic, partitions[i][1], partitions[i][2]>>]

TranslationInit ==
    /\ new
    /\ commit_interval = 1
    /\ script = 0
    /\ hist = {}
    /\ \E m \in OffsetMaps :
          translation = [stage |-> "groups", map |-> m, left |-> m,
                         groups |-> <<>>, todo |-> {}, tpl |-> <<>>]

\* a first loop in which the entry of a topic replaces the Vec that is there
group_entry_overwrite(e) ==
    /\ translation.stage = "groups"
    /\ e \in translation.left
    /\ LET g == translation.groups
           topic == e[1][1]
       IN translation' =
            [translation EXCEPT
               !.left = @ \ {e},
               !.groups = [tp \in DOMAIN g \cup {topic} |->
                             IF tp = topic THEN <<<<e[1][2], e[2]>>>> ELSE g[tp]]]
    /\ UNCHANGED registry

\* the first loop, for the entry e that the map's iterator yields:
\* groups.entry(topic).or_insert(Vec::new()).push((partition, offset))
group_entry(e) ==
    /\ translation.stage = "groups"
    /\ e \in translation.left
    /\ LET g == translation.groups
           topic == e[1][1]
           partitions == IF topic \in DOMAIN g THEN g[topic] ELSE <<>>
       IN translation' =
            [translation EXCEPT
               !.left = @ \ {e},
               !.groups = [tp \in DOMAIN g \cup {topic} |->
                             IF tp = topic THEN Append(partitions, <<e[1][2], e[2]>>)
                             ELSE g[tp]]]
    /\ UNCHANGED registry

\* the map is exhausted: let mut tpl = TopicPartitionList::new()
new_tpl ==
    /\ translation.stage = "groups"
    /\ translation.left = {}
    /\ translation' = [translation EXCEPT !.stage = "tpl",
                                          !.todo = DOMAIN translation.groups]
    /\ UNCHANGED registry

\* the second loop, for the topic that the iterator of groups yields
add_group(topic) ==
    /\ translation.stage = "tpl"
    /\ topic \in translation.todo
    /\ translation' =
         [translation EXCEPT
            !.todo = @ \ {topic},
            !.tpl = add_to_list(@, topic, translation.groups[topic])]
    /\ UNCHANGED registry

\* groups is exhausted: tpl is returned
return_tpl ==
    /\ translation.stage = "tpl"
    /\ translation.todo = {}
    /\ translation' = [translation EXCEPT !.stage = "returned"]
    /\ UNCHANGED registry

TranslationNext ==
    \/ \E e \in Keys \X Offsets : group_entry(e)
    \/ new_tpl
    \/ \E topic \in {k[1] : k \in Keys} : add_group(topic)
    \/ return_tpl

TranslationSpec == TranslationInit /\ [][TranslationNext]_vars

\* ---------------------------------------------------------------- claims

\* the (topic, partition, offset) triples of an offset map
Entries(map) == {<<e[1][1], e[1][2], e[2]>> : e \in map}

\* the latest registered offset of every key ever registered
FinalOffsets == {<<k[1], k[2], latest[k]>> : k \in {x \in Keys : latest[x] # -1}}

AllDropped == \A t \in Threads : pc[t] \in {"unborn", "dropped"}

\* thread t takes the step named by its positions before and after
Moves(t, from, to) == pc[t] = from /\ pc'[t] = to

\* C1: when the last handle of the registry has been dropped (no step follows
\* it), the step was a commit call on the consumer whose request carries the
\* latest registered offset of every key ever registered.
C1_TeardownCommit ==
    AllDropped => ev.call.kind = "explicit" /\ ev.call.req = FinalOffsets

\* every handle (the original and its clones) is dropped, offsets were
\* registered and no scheduled flush ever fired
C1_Witness ==
    /\ \A t \in Threads : pc[t] = "dropped"
    /\ offsets # {}
    /\ lastFlush = -1

\* C2: dropping a handle while another handle of the registry is alive issues no
\* commit call and leaves last_commit_time unchanged.
C2_NoCommitOnCloneDrop ==
    [][\A t \in Threads :
         (Moves(t, "idle", "dropped") /\ \E u \in Threads \ {t} : Live(u))
         => ev'.call.kind = "none" /\ last_commit_time' = last_commit_time]_vars

\* C3: a register_message call goes on to flush only if the time it sampled is
\* at least commit_interval after last_commit_time, and only such a call makes
\* a scheduled commit call; a call that finds less elapsed issues no commit
\* call, no observer call and leaves last_commit_time unchanged; the times of
\* two scheduled flushes are at least commit_interval apart.
C3_NoEarlyFlush ==
    [][/\ ev'.call.kind = "scheduled"
          => \E t \in Threads : Moves(t, "flush", "notify")
       /\ \A t \in Threads :
            /\ Moves(t, "sampled", "flush")
               => /\ now[t] - last_commit_time >= commit_interval
                  /\ lastFlush # -1 => now[t] - lastFlush >= commit_interval
            /\ (pc[t] = "sampled" /\ pc'[t] # "sampled"
                  /\ now[t] - last_commit_time < commit_interval)
               => /\ pc'[t] # "flush"
                  /\ ev'.call.kind = "none"
                  /\ ~ev'.notified.called
                  /\ last_commit_time' = last_commit_time
      ]_vars

\* the only thread there ever was has made a registration after its scheduled
\* flush, less than commit_interval after it, which returned without a flush
C3_Witness ==
    /\ \A t \in Threads \ {1} : pc[t] = "unborn"
    /\ lastFlush # -1
    /\ lastFlush = last_commit_time
    /\ clock - lastFlush < commit_interval
    /\ ev.skipped

\* C4: a register_message call that compares a time now with
\* now - last_commit_time >= commit_interval (equality included) sets
\* last_commit_time to now and issues exactly one commit call before it returns.
C4_InclusiveTrigger ==
    [][\A t \in Threads :
         /\ (pc[t] = "sampled" /\ pc'[t] \notin {"sampled", "aborted"}
               /\ now[t] - last_commit_time >= commit_interval)
            => pc'[t] = "flush" /\ last_commit_time' = now[t]
         /\ pc[t] = "flush"
            => \/ pc'[t] = "flush" /\ ev'.call.kind = "none"
               \/ pc'[t] = "notify" /\ ev'.call.kind = "scheduled"
         /\ pc[t] = "notify"
            => /\ ev'.call.kind = "none"
               /\ last_commit_time = now[t]
               /\ last_commit_time' = now[t]
               /\ pc'[t] \in {"notify", "idle", "reentered"}
      ]_vars

\* the commit call of a flush triggered exactly commit_interval after the
\* construction time
C4_Witness ==
    \E t \in Threads :
        /\ pc[t] = "notify"
        /\ ev.call.kind = "scheduled"
        /\ now[t] = commit_interval
        /\ last_commit_time = commit_interval

\* C5: a scheduled flush made while a callback is set invokes it exactly once, at
\* its end, with the result of the flush's commit call and a map whose entries are
\* the commit request of that flush.
C5_ObserverDelivery ==
    [][\A t \in Threads :
         /\ Moves(t, "notify", "idle")
            => IF callback # None
               THEN /\ ev'.notified.called
                    /\ Entries(ev'.notified.map) = sent[t]
                    /\ ev'.notified.res = result[t]
               ELSE ~ev'.notified.called
         /\ Moves(t, "flush", "notify") => ~ev'.notified.called
         /\ Moves(t, "sampled", "flush") => ~ev'.notified.called
      ]_vars

\* the observer is given a non-empty map and the error of a failed flush
C5_Witness ==
    /\ ev.notified.called
    /\ ev.notified.res = "Err"
    /\ ev.notified.map # {}

C7_ObserverHasFinalOffsets ==
    script >= TestJoined => committed = TestExpected

\* C8: in test_auto_commit_registry, a scheduled commit is issued before any
\* explicit or teardown commit, and the commit calls made once the thread has
\* finished (its clone's drop, then reg's) carry
\* {("a",0):3, ("a",1):4, ("b",0):3}.
C8_ScenarioCommits ==
    /\ ev.call.kind = "explicit" => lastFlush # -1
    /\ script >= TestJoined
       => ev.call.kind = "explicit" /\ ev.call.req = Entries(TestExpected)

\* the thread has finished and its clone's drop has committed, after a
\* scheduled flush at 2 s or later
C8_Witness ==
    /\ script = TestJoined
    /\ ev.call.kind = "explicit"
    /\ lastFlush >= TestInterval

\* C9: the offset map holds exactly one entry per registered key, with the
\* offset of the latest register_message of that key, larger or not.
C9_LastWriteWins ==
    /\ offsets = {<<k, latest[k]>> : k \in {x \in Keys : latest[x] # -1}}
    /\ \A e1, e2 \in offsets : e1[1] = e2[1] => e1 = e2

\* a registration has replaced the entry of its key by a smaller offset, next
\* to the entry of another key
C9_Witness ==
    /\ ev.lowered
    /\ \E k \in RegKeys : <<k, 0>> \in offsets
    /\ Cardinality(offsets) = 2

\* C10: a scheduled flush whose commit call fails leaves last_commit_time at the
\* flush's time and the offset map as it is, issues no second commit call, and
\* the next scheduled flush comes at least commit_interval after it.
C10_FailedFlushNoRetry ==
    [][\A t \in Threads :
         /\ (Moves(t, "flush", "notify") /\ result'[t] = "Err")
            => /\ last_commit_time' = now[t]
               /\ offsets' = offsets
               /\ ev'.call.res = "Err"
         /\ (pc[t] = "notify" /\ result[t] = "Err")
            => /\ last_commit_time' = now[t]
               /\ offsets' = offsets
               /\ ev'.call.kind = "none"
               /\ pc'[t] \in {"notify", "idle", "reentered"}
         /\ (Moves(t, "sampled", "flush") /\ lastFlush # -1)
            => now[t] >= lastFlush + commit_interval
      ]_vars

\* the failed commit call of a scheduled flush has returned: the map is not
\* empty and last_commit_time is the flush's time
C10_Witness ==
    \E t \in Threads :
        /\ pc[t] = "notify"
        /\ result[t] = "Err"
        /\ ev.call.res = "Err"
        /\ offsets # {}
        /\ last_commit_time = now[t]

\* C11: a step of commit() makes one commit call on the consumer whose request
\* is the offset map of that moment, whatever time has passed since
\* last_commit_time, returns the result of that call as it is, and leaves the
\* offset map unchanged; nothing else returns a commit result.
C11_ExplicitCommit ==
    [][/\ ev'.call.kind = "explicit"
          => /\ ev'.call.req = Entries(offsets)
             /\ ev'.call.res \in Results
             /\ ev'.returned = ev'.call.res
             /\ offsets' = offsets
             /\ last_commit_time' = clock
       /\ ev'.returned # "none" => ev'.call.kind = "explicit"
      ]_vars

\* a commit() on a handle that stays alive fails and returns the error, at the
\* very time of the last scheduled flush (nothing has elapsed)
C11_Witness ==
    /\ ev.call.kind = "explicit"
    /\ ev.call.res = "Err"
    /\ ev.returned = "Err"
    /\ ev.call.req # {}
    /\ lastFlush = clock
    /\ \A t \in Threads : pc[t] # "dropped"

\* C12: a clone() leaves the offset map, last_commit_time and the callback as
\* they are; the request of every commit call, through whichever handle, carries
\* the latest registration of every key, through whichever handle it was made;
\* and a handle goes on to flush only commit_interval or more after the last
\* scheduled flush of any handle.
C12_ClonesShareRegistry ==
    [][/\ \A u \in Threads :
            Moves(u, "unborn", "idle") => inner' = inner /\ lock' = lock
       /\ ev'.call.kind # "none" => ev'.call.req = FinalOffsets
       /\ \A t \in Threads :
            (Moves(t, "sampled", "flush") /\ lastFlush # -1)
            => now[t] - lastFlush >= commit_interval
      ]_vars

\* the scheduled flush of thread 1 commits the offset that thread 2, owner of
\* ("b", 0), registered through its clone, next to its own
C12_Witness ==
    /\ pc[1] = "notify"
    /\ ev.call.kind = "scheduled"
    /\ \E e \in ev.call.req : e[1] = "b"
    /\ \E e \in ev.call.req : e[1] = "a"

\* C13: where a first observer "f" and then a second "g" are set: the callback is
\* the observer of the last set_callback; a scheduled flush invokes that one,
\* once, in its last step, and no other; before any set_callback a scheduled
\* flush invokes nothing and its result, error or not, goes nowhere.
C13_ObserverReplaced ==
    [][/\ callback' = IF script' = 0 THEN None ELSE Replacing[script']
       /\ ev'.notified.called
          => /\ ev'.notified.who = callback
             /\ \E t \in Threads : pc[t] = "notify" /\ pc'[t] \in {"idle", "reentered"}
       /\ \A t \in Threads :
            /\ (Moves(t, "notify", "idle") /\ callback # None) => ev'.notified.called
            /\ (Moves(t, "notify", "idle") /\ callback = None)
               => /\ ~ev'.notified.called
                  /\ result'[t] = "none"
                  /\ ev'.returned = "none"
      ]_vars

\* "f" was set, "g" has replaced it, and a failed scheduled flush has invoked "g"
C13_Witness ==
    /\ script = 2
    /\ ev.notified.called
    /\ ev.notified.who = "g"
    /\ ev.notified.res = "Err"

\* the set of the elements of a sequence
Range(seq) == {seq[i] : i \in 1..Len(seq)}

\* C14: for every offset map over Keys and Offsets, the empty one included, and
\* every order in which the two loops of offset_map_to_tpl iterate, the returned
\* list holds one element for every entry of the map and no other, the elements
\* of a topic next to each other; it is the store the commit calls are given.
C14_TranslationRoundTrip ==
    translation.stage = "returned"
    => LET tpl == translation.tpl
       IN /\ Range(tpl) = Entries(translation.map)
          /\ Len(tpl) = Cardinality(translation.map)
          /\ \A i, j, k \in 1..Len(tpl) :
                (i < j /\ j < k /\ tpl[i][1] = tpl[k][1]) => tpl[j][1] = tpl[i][1]
          /\ Range(tpl) = offset_map_to_tpl(translation.map)

\* the list of a map of three entries is returned, topic "b" first and
\* partition 1 of topic "a" before its partition 0
C14_Witness ==
    /\ translation.stage = "returned"
    /\ Cardinality(translation.map) = 3
    /\ translation.tpl[1][1] = "b"
    /\ translation.tpl[2][2] = 1
    /\ translation.tpl[3][2] = 0

\* C15: the commit call of commit(), failed or not, in a drop or not, sets
\* last_commit_time to the time it is made at; last_commit_time is never later
\* than the clock and never decreases; and a register_message goes on to flush
\* only with a sampled time, and so at a time, of last_commit_time +
\* commit_interval or later: not before the time of any earlier commit() +
\* commit_interval.
C15_ExplicitResetsTimer ==
    [][/\ ev'.call.kind = "explicit" => last_commit_time' = clock
       /\ last_commit_time <= clock
       /\ last_commit_time' >= last_commit_time
       /\ \A t \in Threads :
            Moves(t, "sampled", "flush")
            => /\ now[t] >= last_commit_time + commit_interval
               /\ clock >= last_commit_time + commit_interval
      ]_vars

\* a handle was dropped, the last commit() came after the last scheduled flush,
\* and a registration made less than commit_interval after that commit, at a
\* time a flush was due but for it, has returned without a flush
C15_Witness ==
    /\ ev.skipped
    /\ \E t \in Threads : pc[t] = "dropped"
    /\ last_commit_time > 0
    /\ last_commit_time > lastFlush
    /\ clock - last_commit_time < commit_interval
    /\ clock - (IF lastFlush = -1 THEN 0 ELSE lastFlush) >= commit_interval

\* C16: the lock is held by the one thread that is between the comparison and
\* the return of a flushing maybe_commit, and by no thread otherwise; while it
\* is held the offset map, last_commit_time and the callback do not change, no
\* registration is applied and no other thread makes a commit call; every other
\* step that changes them or makes a commit call takes the free lock for
\* itself; and the request of a commit call is the offset map of the step that
\* makes it.
C16_MutualExclusion ==
    [][/\ \A t \in Threads : lock = t <=> pc[t] \in {"flush", "notify", "reentered"}
       /\ \A t, u \in Threads :
            (lock = t /\ pc[u] \in {"flush", "notify", "reentered"}) => t = u
       /\ lock # NoThread
          => /\ inner' = inner
             /\ latest' = latest
             /\ ev'.call.kind \in {"none", "scheduled"}
             /\ ev'.call.kind = "scheduled" => Moves(lock, "flush", "notify")
       /\ ev'.call.kind # "none"
          => /\ ev'.call.req = Entries(offsets)
             /\ offsets' = offsets
             /\ ev'.call.kind = "explicit" => lock = NoThread /\ lock' = NoThread
      ]_vars

\* thread 1 holds the lock, its commit call made, while thread 2 has sampled its
\* time and waits for the lock
C16_Witness ==
    /\ lock = 1
    /\ pc[1] = "notify"
    /\ ev.call.kind = "scheduled"
    /\ pc[2] = "sampled"

\* C17: a thread whose observer re-enters the registry finds the lock free: it
\* never waits, inside the observer, for the lock that its own flush holds.
C17_ReentrantObserverReturns ==
    \A t \in Threads : pc[t] = "reentered" => lock # t

\* C18: whenever maybe_commit compares, under the lock, the time it sampled
\* with last_commit_time, the sampled time is not the earlier one; the process
\* is never aborted by the comparison; last_commit_time never decreases.
C18_SampleNotStale ==
    [][/\ \A t \in Threads :
            (pc[t] = "sampled" /\ pc'[t] \in {"idle", "flush"})
            => now[t] >= last_commit_time
       /\ (~aborted /\ aborted') => \E t \in Threads : pc[t] = "reentered"
       /\ last_commit_time' >= last_commit_time
      ]_vars

\* the keys of a commit request
ReqKeys(req) == {<<e[1], e[2]>> : e \in req}

\* C19: where every key is registered by its one consumer with offsets that
\* never decrease, every key of the commit request before is in the request of
\* a commit call, scheduled, explicit or of a drop, with the same offset or a
\* larger one.
C19_CommittedNeverRegress ==
    ev.call.kind # "none"
    => \A p \in hist :
         \E q \in ev.call.req : q[1] = p[1] /\ q[2] = p[2] /\ q[3] >= p[3]

\* the scheduled flush of thread 2 commits a larger offset for both keys than
\* the commit call before it
C19_Witness ==
    /\ ev.call.kind = "scheduled"
    /\ pc[2] = "notify"
    /\ hist = {<<"a", 0, 0>>, <<"b", 0, 0>>}
    /\ ev.call.req = {<<"a", 0, 1>>, <<"b", 0, 1>>}

\* C20: no step takes a key out of the offset map; the request of every commit
\* call holds every key registered so far, those of the request before among
\* them; and the request of the scheduled flush of a register_message holds the
\* key of that registration.
C20_MapOnlyGrows ==
    [][/\ {e[1] : e \in offsets} \subseteq {e[1] : e \in offsets'}
       /\ ev'.call.kind # "none"
          => /\ {k \in Keys : latest[k] # -1} \subseteq ReqKeys(ev'.call.req)
             /\ ReqKeys(hist') \subseteq ReqKeys(ev'.call.req)
       /\ \A t \in Threads :
            Moves(t, "flush", "notify")
            => \E k \in RegKeys : Owner(k) = t /\ k \in ReqKeys(ev'.call.req)
      ]_vars

\* after a failed commit call with one key, and a drop, a scheduled flush
\* commits that key and a second one
C20_Witness ==
    /\ ev.call.kind = "scheduled"
    /\ Cardinality(hist) = 1
    /\ Cardinality(ev.call.req) = 2
    /\ \E t \in Threads : pc[t] = "dropped"

====
